---------------------------- MODULE Spec2Model ----------------------------
(* Model of the frontend's Strapi GraphQL query builder                    *)
(* (frontend/src/api-utils/query-utils.ts) and of the favorite toggle of   *)
(* the HeaderShop component.  Strings are TLA+ strings; a character of a   *)
(* string s is SubSeq(s, i, i).                                            *)
EXTENDS Integers, Sequences, FiniteSets, TLC

VARIABLES
  call,      \* the arguments of the builder call that returned last (query-utils.ts:12, 27, 49)
  result,    \* the string that call returned
  favorite,  \* HeaderShop: the state held by React.useState(false) (line 30)
  closure,   \* HeaderShop: the favorite that select of the last render reads (lines 30-33)
  queue,     \* HeaderShop: the values handed to setFavorite since the last render (line 32)
  icon,      \* HeaderShop: the icon of the last render (line 66)
  clicks     \* HeaderShop: the clicks on the icon handled so far (line 65)

vars == <<call, result, favorite, closure, queue, icon, clicks>>
builderVars == <<call, result>>
headerVars == <<favorite, closure, queue, icon, clicks>>

(* ------------------------------ bounds -------------------------------- *)

MaxFields == 2
MaxClicks == 12

(* --------------------------- string helpers --------------------------- *)

Char(s, i) == SubSeq(s, i, i)

StartsWith(s, p) == Len(s) >= Len(p) /\ SubSeq(s, 1, Len(p)) = p

EndsWith(s, p) == Len(s) >= Len(p) /\ SubSeq(s, Len(s) - Len(p) + 1, Len(s)) = p

Drop(s, n) == SubSeq(s, n + 1, Len(s))

IndexesOf(s, p) == {i \in 1..(Len(s) - Len(p) + 1) : SubSeq(s, i, i + Len(p) - 1) = p}

Contains(s, p) == IndexesOf(s, p) # {}

(* --------------------------- JavaScript values ------------------------ *)

Undefined == [t |-> "undefined"]
Num(n) == [t |-> "number", n |-> n]
Str(s) == [t |-> "string", s |-> s]
Bool(b) == [t |-> "boolean", b |-> b]
Arr(items) == [t |-> "array", items |-> items]
\* props: the own properties in insertion order, each <<key, value>>
Obj(props) == [t |-> "object", props |-> props]

\* ToBoolean, as applied by `x ? a : b`, `x || y` and `if (x)`
Truthy(v) ==
  CASE v.t = "undefined" -> FALSE
    [] v.t = "number" -> v.n # 0
    [] v.t = "string" -> v.s # ""
    [] v.t = "boolean" -> v.b
    [] OTHER -> TRUE

Digits == <<"0", "1", "2", "3", "4", "5", "6", "7", "8", "9">>

RECURSIVE NatToString(_)
NatToString(n) ==
  IF n < 10 THEN Digits[n + 1] ELSE NatToString(n \div 10) \o Digits[(n % 10) + 1]

\* Number::toString for integers, as used by `${id}` and JSON.stringify
NumberToString(n) == IF n < 0 THEN "-" \o NatToString(0 - n) ELSE NatToString(n)

\* Array.prototype.join
RECURSIVE Join(_, _)
Join(seq, sep) ==
  IF seq = <<>> THEN ""
  ELSE IF Len(seq) = 1 THEN seq[1]
  ELSE seq[1] \o sep \o Join(Tail(seq), sep)

\* JSON string escaping of the quote and the backslash
RECURSIVE Escape(_)
Escape(s) ==
  IF s = "" THEN ""
  ELSE LET c == Char(s, 1) IN
       (IF c = "\"" THEN "\\\"" ELSE IF c = "\\" THEN "\\\\" ELSE c) \o Escape(Drop(s, 1))

Quote(s) == "\"" \o Escape(s) \o "\""

RECURSIVE JSONstringify(_)
JSONstringify(v) ==
  CASE v.t = "string" -> Quote(v.s)
    [] v.t = "number" -> NumberToString(v.n)
    [] v.t = "boolean" -> (IF v.b THEN "true" ELSE "false")
    [] v.t = "array" ->
         "[" \o Join([i \in 1..Len(v.items) |-> JSONstringify(v.items[i])], ",") \o "]"
    [] v.t = "object" ->
         "{" \o Join([i \in 1..Len(v.props) |->
                        Quote(v.props[i][1]) \o ":" \o JSONstringify(v.props[i][2])], ",")
             \o "}"

\* position of the first quote after position i, 0 when there is none
NextQuote(s, i) ==
  LET js == {j \in (i + 1)..Len(s) : Char(s, j) = "\""} IN
  IF js = {} THEN 0 ELSE CHOOSE j \in js : \A k \in js : j <= k

\* s.replace(/"([^"]+)":/g, "$1:") from position i on: leftmost matches, not
\* overlapping; a match is a quote, one or more non-quote characters, a quote and
\* a colon
RECURSIVE ReplaceFrom(_, _)
ReplaceFrom(s, i) ==
  IF i > Len(s) THEN ""
  ELSE LET j == NextQuote(s, i) IN
       IF Char(s, i) = "\"" /\ j > i + 1 /\ j < Len(s) /\ Char(s, j + 1) = ":"
       THEN SubSeq(s, i + 1, j - 1) \o ":" \o ReplaceFrom(s, j + 2)
       ELSE Char(s, i) \o ReplaceFrom(s, i + 1)

\* JSON.stringify(x)?.replace(/"([^"]+)":/g, "$1:")
Literal(v) == IF v.t = "undefined" THEN Undefined ELSE ReplaceFrom(JSONstringify(v), 1)

\* Object.keys of a plain object with non-numeric keys: insertion order
ObjectKeys(o) == [i \in 1..Len(o.props) |-> o.props[i][1]]

\* o[key] for a key of Object.keys(o)
Get(o, key) == (CHOOSE i \in 1..Len(o.props) : o.props[i][1] = key)

(* ------------------------------ the builder --------------------------- *)

\* as query, but with the padding collapsed around an empty content
queryTrimmed(queryContent) ==
  IF queryContent = "" THEN "query { }" ELSE "query { " \o queryContent \o " }"

query(queryContent) == "query { " \o queryContent \o " }"

entryName(entityName, id) ==
  entityName \o (IF Truthy(id) THEN "(id: " \o NumberToString(id.n) \o ")" ELSE "")

RECURSIVE Unique(_)
Unique(seq) ==
  IF seq = <<>> THEN <<>>
  ELSE LET front == Unique(SubSeq(seq, 1, Len(seq) - 1))
           last == seq[Len(seq)]
       IN IF \E i \in 1..Len(front) : front[i] = last THEN front ELSE Append(front, last)

\* as data, but selecting every field once
dataUnique(fields) == "data { id attributes { " \o Join(Unique(fields), " ") \o " } }"

data(fields) == "data { id attributes { " \o Join(fields, " ") \o " } }"

entry(entityName, fields, id) == entryName(entityName, id) \o " { " \o data(fields) \o " }"

\* as needsBraces, but testing the parameters against null instead of for truthiness
needsBracesNotNull(filter, pagination, sort) ==
  filter.t # "null" \/ pagination.t # "null" \/ sort.t # "null"

needsBraces(filter, pagination, sort) == Truthy(filter) \/ Truthy(pagination) \/ Truthy(sort)

collectionName(entityName, filter, pagination, sort) ==
  entityName
    \o (IF needsBraces(filter, pagination, sort) THEN "(" ELSE "")
    \o (IF Truthy(filter) THEN "filters: " \o Literal(filter) \o ", " ELSE "")
    \o (IF Truthy(pagination) THEN "pagination: " \o Literal(pagination) \o ", " ELSE "")
    \o (IF Truthy(sort) THEN "sort: " \o Literal(sort) \o ", " ELSE "")
    \o (IF needsBraces(filter, pagination, sort) THEN ")" ELSE "")

\* as paginationResponseString, but without the filter on the flag's value
paginationResponseStringAllKeys(paginationResponse) ==
  Join(ObjectKeys(paginationResponse), " ")

\* Object.keys(paginationResponse).filter((key) => paginationResponse[key]).join(" ")
paginationResponseString(paginationResponse) ==
  Join(SelectSeq(ObjectKeys(paginationResponse),
                 LAMBDA key : Truthy(paginationResponse.props[Get(paginationResponse, key)][2])),
       " ")

collection(entityName, fields, filter, sort, pagination, paginationResponse) ==
  collectionName(entityName, filter, pagination, sort)
    \o " { " \o data(fields) \o " "
    \o (IF Truthy(paginationResponse)
        THEN "meta { pagination { " \o paginationResponseString(paginationResponse) \o " } }"
        ELSE "")
    \o " }"

(* ------------------------------ arguments ----------------------------- *)

EntityNames == {"shops", "shop"}
FieldNames == {"name", "city"}

RECURSIVE SeqsUpTo(_, _)
SeqsUpTo(S, n) ==
  IF n = 0 THEN {<<>>}
  ELSE LET shorter == SeqsUpTo(S, n - 1) IN
       shorter \cup {Append(q, x) : q \in {r \in shorter : Len(r) = n - 1}, x \in S}

FieldLists == SeqsUpTo(FieldNames, MaxFields)

Ids == {Undefined, Num(7), Num(12), Num(0), Num(0 - 3)}

Filters ==
  { Undefined,
    Obj(<<>>),
    Obj(<< <<"name", Obj(<< <<"eq", Str("shop")>> >>)>> >>),
    Obj(<< <<"name", Obj(<< <<"eq", Str("a\":")>> >>)>> >>),
    Obj(<< <<"or", Arr(<< Obj(<< <<"city", Obj(<< <<"eq", Str("Ulm")>> >>)>> >>),
                          Obj(<< <<"id", Obj(<< <<"gt", Num(3)>> >>)>> >>) >>)>> >>) }

Sorts ==
  { Undefined, Str(""), Str("name:asc"), Arr(<<>>),
    Arr(<<Str("name:asc"), Str("city:desc")>>) }

Paginations ==
  { Undefined,
    Obj(<< <<"page", Num(1)>>, <<"pageSize", Num(10)>> >>),
    Obj(<< <<"start", Num(0)>>, <<"limit", Num(25)>> >>) }

PaginationResponses ==
  { Undefined,
    Obj(<<>>),
    Obj(<< <<"total", Bool(TRUE)>>, <<"pageCount", Bool(FALSE)>> >>),
    Obj(<< <<"pageCount", Bool(TRUE)>>, <<"total", Bool(TRUE)>> >>),
    Obj(<< <<"total", Bool(FALSE)>> >>),
    Obj(<< <<"page", Bool(TRUE)>>, <<"pageSize", Bool(FALSE)>>,
           <<"pageCount", Bool(TRUE)>>, <<"total", Bool(TRUE)>> >>) }

QueryContents ==
  { "", "}{",
    entry("shop", <<"name">>, Num(7)),
    collection("shops", <<"name", "city">>, Undefined, Str("name:asc"), Undefined, Undefined) }

NoCall ==
  [fn |-> "none", entityName |-> "", fields |-> <<>>, id |-> Undefined,
   filter |-> Undefined, sort |-> Undefined, pagination |-> Undefined,
   paginationResponse |-> Undefined, queryContent |-> ""]

(* ------------------------------- actions ------------------------------ *)

Init ==
  /\ call = NoCall
  /\ result = ""
  /\ favorite = FALSE
  /\ closure = FALSE
  /\ queue = <<>>
  /\ icon = "HeartRegular"
  /\ clicks = 0

Query ==
  /\ call.fn = "none"
  /\ \E queryContent \in QueryContents :
       /\ call' = [NoCall EXCEPT !.fn = "query", !.queryContent = queryContent]
       /\ result' = query(queryContent)
  /\ UNCHANGED headerVars

Entry ==
  /\ call.fn = "none"
  /\ \E entityName \in EntityNames, fields \in FieldLists, id \in Ids :
       /\ call' = [NoCall EXCEPT !.fn = "entry", !.entityName = entityName,
                                 !.fields = fields, !.id = id]
       /\ result' = entry(entityName, fields, id)
  /\ UNCHANGED headerVars

Collection ==
  /\ call.fn = "none"
  /\ \E entityName \in EntityNames, fields \in FieldLists, filter \in Filters,
        sort \in Sorts, pagination \in Paginations,
        paginationResponse \in PaginationResponses :
       /\ call' = [NoCall EXCEPT !.fn = "collection", !.entityName = entityName,
                                 !.fields = fields, !.filter = filter, !.sort = sort,
                                 !.pagination = pagination,
                                 !.paginationResponse = paginationResponse]
       /\ result' = collection(entityName, fields, filter, sort, pagination,
                               paginationResponse)
  /\ UNCHANGED headerVars

\* the caller has used the string and drops the value objects of the call
Discard ==
  /\ call.fn # "none"
  /\ call' = NoCall
  /\ result' = ""
  /\ UNCHANGED headerVars

Next == Query \/ Entry \/ Collection \/ Discard

Spec == Init /\ [][Next]_vars

(* ------------------------ the HeaderShop component -------------------- *)

\* const select = () => { setFavorite(!favorite) }: the value handed to setFavorite,
\* computed from the favorite of the render that created the handler
select(renderedFavorite) == ~renderedFavorite

\* icon={favorite ? HeartSolid : HeartRegular}
Icon(renderedFavorite) == IF renderedFavorite THEN "HeartSolid" ELSE "HeartRegular"

\* React.useState on a re-render: the pending setFavorite values replace the state
\* one after the other, so the last one stays
useState(state, pending) == IF pending = <<>> THEN state ELSE pending[Len(pending)]

\* a click on the heart icon runs the select of the last render
Click ==
  /\ clicks < MaxClicks
  /\ queue' = Append(queue, select(closure))
  /\ clicks' = clicks + 1
  /\ UNCHANGED <<favorite, closure, icon>>
  /\ UNCHANGED builderVars

\* React calls HeaderShop again; React batches state updates, so the model does not
\* fix how many handlers run before it does
Render ==
  /\ favorite' = useState(favorite, queue)
  /\ queue' = <<>>
  /\ closure' = favorite'
  /\ icon' = Icon(favorite')
  /\ UNCHANGED clicks
  /\ UNCHANGED builderVars

HeaderNext == Click \/ Render

HeaderSpec == Init /\ [][HeaderNext]_vars


(* ------------------- reading an output string back -------------------- *)

DataOpen == "data { id attributes { "
BlockClose == " } }"
MetaOpen == "meta { pagination { "

\* the pieces of s between the single spaces of s
RECURSIVE Split(_)
Split(s) ==
  IF s = "" THEN <<>>
  ELSE LET sp == IndexesOf(s, " ") IN
       IF sp = {} THEN <<s>>
       ELSE LET i == CHOOSE k \in sp : \A m \in sp : k <= m IN
            <<SubSeq(s, 1, i - 1)>> \o Split(Drop(s, i))

RECURSIVE TotalLen(_)
TotalLen(words) == IF words = <<>> THEN 0 ELSE Len(words[1]) + TotalLen(Tail(words))

\* text is exactly the words, in their order, with one space between neighbours
SpaceJoined(text, words) ==
  /\ Split(text) = words
  /\ Len(text) = TotalLen(words) + (IF words = <<>> THEN 0 ELSE Len(words) - 1)

First(S) == CHOOSE i \in S : \A k \in S : i <= k

\* the text after the first occurrence of open in s, up to the next occurrence of close
Between(s, open, close) ==
  LET rest == Drop(s, First(IndexesOf(s, open)) + Len(open) - 1) IN
  SubSeq(rest, 1, First(IndexesOf(rest, close)) - 1)

\* the part of a collection or entry output in front of its data block
BeforeData(s) == SubSeq(s, 1, First(IndexesOf(s, DataOpen)) - 1)

IsInt(s) ==
  LET d == IF StartsWith(s, "-") THEN Drop(s, 1) ELSE s IN
  /\ d # ""
  /\ \A i \in 1..Len(d) : \E k \in 1..Len(Digits) : Char(d, i) = Digits[k]

\* DataBlock := "data { id attributes { " FieldList " } }"
IsDataBlock(s) ==
  StartsWith(s, DataOpen) /\ EndsWith(s, BlockClose) /\ Len(s) >= Len(DataOpen) + Len(BlockClose)

\* MetaBlock := "meta { pagination { " FlagNames " } }"
IsMetaBlock(s) ==
  StartsWith(s, MetaOpen) /\ EndsWith(s, BlockClose) /\ Len(s) >= Len(MetaOpen) + Len(BlockClose)

\* (key ": " Literal ", ")?
IsSegment(key, s) ==
  \/ s = ""
  \/ StartsWith(s, key \o ": ") /\ EndsWith(s, ", ") /\ Len(s) > Len(key) + 4

\* ParamList := ("filters: " Literal ", ")? ("pagination: " Literal ", ")? ("sort: " Literal ", ")?
IsParamList(s) ==
  \E a \in 0..Len(s) : \E b \in a..Len(s) :
    /\ IsSegment("filters", SubSeq(s, 1, a))
    /\ IsSegment("pagination", SubSeq(s, a + 1, b))
    /\ IsSegment("sort", SubSeq(s, b + 1, Len(s)))

\* EntryReq := Name ("(id: " Int ")")? " { " DataBlock " }"
DerivesEntryReq(s, name) ==
  /\ StartsWith(s, name)
  /\ \E p \in Len(name)..Len(s) :
       LET clause == SubSeq(s, Len(name) + 1, p)
           rest == Drop(s, p)
       IN /\ \/ clause = ""
             \/ /\ StartsWith(clause, "(id: ")
                /\ EndsWith(clause, ")")
                /\ IsInt(SubSeq(clause, Len("(id: ") + 1, Len(clause) - 1))
          /\ StartsWith(rest, " { ")
          /\ EndsWith(rest, " }")
          /\ IsDataBlock(SubSeq(rest, Len(" { ") + 1, Len(rest) - Len(" }")))

\* CollectionReq := Name ("(" ParamList ")")? " { " DataBlock (" " MetaBlock)? " }"
DerivesCollectionReq(s, name) ==
  /\ StartsWith(s, name)
  /\ \E p \in Len(name)..Len(s) :
       LET clause == SubSeq(s, Len(name) + 1, p)
           rest == Drop(s, p)
           body == SubSeq(rest, Len(" { ") + 1, Len(rest) - Len(" }"))
       IN /\ StartsWith(rest, " { ")
          /\ EndsWith(rest, " }")
          /\ \/ clause = ""
             \/ /\ StartsWith(clause, "(")
                /\ EndsWith(clause, ")")
                /\ IsParamList(SubSeq(clause, 2, Len(clause) - 1))
          /\ \/ IsDataBlock(body)
             \/ \E m \in 1..Len(body) :
                  /\ Char(body, m) = " "
                  /\ IsDataBlock(SubSeq(body, 1, m - 1))
                  /\ IsMetaBlock(Drop(body, m))

Supplied(v) == v.t # "undefined"

\* a value written as JSON, with the object keys bare
RECURSIVE KeysUnquoted(_)
KeysUnquoted(v) ==
  CASE v.t = "array" ->
         "[" \o Join([i \in 1..Len(v.items) |-> KeysUnquoted(v.items[i])], ",") \o "]"
    [] v.t = "object" ->
         "{" \o Join([i \in 1..Len(v.props) |->
                        v.props[i][1] \o ":" \o KeysUnquoted(v.props[i][2])], ",")
             \o "}"
    [] OTHER -> JSONstringify(v)

\* the keys of a flag object whose value is true, in insertion order
RECURSIVE TrueKeys(_)
TrueKeys(props) ==
  IF props = <<>> THEN <<>>
  ELSE (IF props[1][2] = Bool(TRUE) THEN <<props[1][1]>> ELSE <<>>) \o TrueKeys(Tail(props))

\* the segment the claims expect of a supplied parameter
ExpectedSegment(key, v) == IF Supplied(v) THEN key \o ": " \o Literal(v) \o ", " ELSE ""

(* ------------------------------- claims ------------------------------- *)

\* C1: the output of entry derives from EntryReq and the output of collection
\* derives from CollectionReq, character for character.
C1_OutputDerivesFromGrammar ==
  /\ call.fn = "entry" => DerivesEntryReq(result, call.entityName)
  /\ call.fn = "collection" => DerivesCollectionReq(result, call.entityName)

\* C2: entry writes "(id: <id>)" right after the entity name for every id that is
\* supplied, whatever its value, and no parenthesized clause when id is not supplied.
C2_IdClauseForEverySuppliedId ==
  call.fn = "entry" =>
    IF Supplied(call.id)
    THEN StartsWith(result, call.entityName \o "(id: " \o NumberToString(call.id.n) \o ") { ")
    ELSE StartsWith(result, call.entityName \o " { ")

\* C3: every supplied one of filter, pagination and sort contributes exactly one
\* segment "<key>: <value>, ", in the order filters, pagination, sort, with ")"
\* right after the last segment.
C3_SuppliedParamsInFixedOrder ==
  (call.fn = "collection"
     /\ (Supplied(call.filter) \/ Supplied(call.pagination) \/ Supplied(call.sort))) =>
    BeforeData(result) =
      call.entityName \o "("
        \o ExpectedSegment("filters", call.filter)
        \o ExpectedSegment("pagination", call.pagination)
        \o ExpectedSegment("sort", call.sort)
        \o ") { "

\* C4: collection writes a parenthesized clause only if one of filter, sort and
\* pagination is supplied: with none of them the entity name is followed directly
\* by " { " and no parenthesis stands before the data block.
C4_NoClauseWithoutParams ==
  call.fn = "collection" =>
    /\ (~Supplied(call.filter) /\ ~Supplied(call.pagination) /\ ~Supplied(call.sort)) =>
         BeforeData(result) = call.entityName \o " { "
    /\ (Contains(BeforeData(result), "(") \/ Contains(BeforeData(result), ")")) =>
         (Supplied(call.filter) \/ Supplied(call.pagination) \/ Supplied(call.sort))

C4_Witness ==
  /\ call.fn = "collection"
  /\ ~Supplied(call.filter) /\ ~Supplied(call.pagination) /\ ~Supplied(call.sort)
  /\ Supplied(call.paginationResponse)
  /\ call.fields # <<>>
  /\ StartsWith(result, call.entityName \o " { data")

\* C5: the literal of every filter, pagination and sort value is its JSON text with
\* the quotes of every object key removed and nothing else changed.
C5_LiteralIsJsonWithBareKeys ==
  call.fn = "collection" =>
    /\ Truthy(call.filter) =>
         Contains(BeforeData(result), "filters: " \o KeysUnquoted(call.filter) \o ", ")
    /\ Truthy(call.pagination) =>
         Contains(BeforeData(result), "pagination: " \o KeysUnquoted(call.pagination) \o ", ")
    /\ Truthy(call.sort) =>
         Contains(BeforeData(result), "sort: " \o KeysUnquoted(call.sort) \o ", ")

\* C6: collection appends "meta { pagination { <names> } }" after the data block
\* if and only if paginationResponse is supplied; <names> is the keys whose value
\* is true, in insertion order, joined by single spaces.
C6_MetaBlockOfTrueFlags ==
  call.fn = "collection" =>
    IF Supplied(call.paginationResponse)
    THEN /\ Cardinality(IndexesOf(result, "meta")) = 1
         /\ EndsWith(result, BlockClose \o " }")
         /\ StartsWith(Drop(result, First(IndexesOf(result, DataOpen)) - 1),
                       data(call.fields) \o " " \o MetaOpen)
         /\ SpaceJoined(SubSeq(result,
                               First(IndexesOf(result, MetaOpen)) + Len(MetaOpen),
                               Len(result) - Len(BlockClose \o " }")),
                        TrueKeys(call.paginationResponse.props))
    ELSE ~Contains(result, "meta")

C6_Witness ==
  /\ call.fn = "collection"
  /\ call.paginationResponse = Obj(<< <<"total", Bool(TRUE)>>, <<"pageCount", Bool(FALSE)>> >>)
  /\ EndsWith(result, " meta { pagination { total } } }")

\* C7: the output of entry and of collection holds exactly one data block,
\* "data { id attributes { <fields> } }", whose fields are those of the field list
\* in its order, repeated as often as they occur there, with single spaces between.
C7_DataBlockKeepsFieldList ==
  call.fn \in {"entry", "collection"} =>
    /\ Cardinality(IndexesOf(result, "data {")) = 1
    /\ Cardinality(IndexesOf(result, DataOpen)) = 1
    /\ SpaceJoined(Between(result, DataOpen, BlockClose), call.fields)

C7_Witness ==
  /\ call.fn = "entry"
  /\ call.fields = <<"name", "name">>
  /\ Contains(result, "{ name name }")

\* C8: query(X) is "query { ", then X unchanged, then " }", also for the empty X.
C8_QueryWrapsContent ==
  call.fn = "query" =>
    /\ Len(result) = Len("query { ") + Len(call.queryContent) + Len(" }")
    /\ StartsWith(result, "query { ")
    /\ EndsWith(result, " }")
    /\ SubSeq(result, Len("query { ") + 1, Len(result) - Len(" }")) = call.queryContent

C8_Witness ==
  /\ call.fn = "query"
  /\ call.queryContent = ""
  /\ result = "query {  }"

\* C10: after n clicks on the heart icon the favorite flag is true exactly when n
\* is odd, also when several clicks are handled before the component renders
\* again, and the icon is the solid heart exactly when the flag is true.
C10_FavoriteIsParityOfClicks ==
  queue = <<>> =>
    /\ favorite = (clicks % 2 = 1)
    /\ icon = (IF favorite THEN "HeartSolid" ELSE "HeartRegular")

=============================================================================
